---- MODULE Spec2Model ----
(***************************************************************************)
(* Model of the brute-force lockout guard of senyaweb-be                   *)
(* (app/middleware/security.py) as it is used by the login endpoint        *)
(* (app/api/endpoints/auth.py).                                            *)
(*                                                                         *)
(* Time is counted in ticks, TicksPerSec ticks to the second, so that the  *)
(* truncation done by int(timedelta.total_seconds()) is visible.  The      *)
(* clock is read at a finite set of instants around the start and around   *)
(* the end of a lockout; between two events it may jump over any amount of *)
(* time.                                                                   *)
(*                                                                         *)
(* Blocked.user_agent and Blocked.ip are stored by the code and never read *)
(* back; the record of the model leaves them out.                          *)
(*                                                                         *)
(* The second half models the encryption middleware                        *)
(* (app/middleware/encryption.py) around the routes and the loading of the *)
(* keys at start-up (app/core/config.py).  A request body is the record of *)
(* what each parsing and decryption step of dispatch finds in it; the      *)
(* timestamps of the envelope are milliseconds.  Spec and SpecTwo are the  *)
(* guard alone, SpecLive is Spec with fairness, SpecCodec the middleware   *)
(* around unguarded routes, SpecLogin the login route behind both,         *)
(* SpecStartup the start-up alone.                                         *)
(***************************************************************************)
EXTENDS Integers, Sequences, FiniteSets, Bags, TLC

\* ---------------------------------------------------------------- constants

MAX_FAILURES == 10

BLOCK_LOCKOUT_TIME == 15 * 60

HTTP_200_OK == 200

HTTP_401_UNAUTHORIZED == 401

HTTP_403_FORBIDDEN == 403

\* ------------------------------------------------------------------- bounds

\* clock resolution: ticks per second
TicksPerSec == 2

\* ticks observed after time 0 and around the end of a lockout
Window == 1

\* requests that may be in flight together
MaxInFlight == 2

\* failures admitted beyond MAX_FAILURES per identity
ExtraFailures == 2

\* ticks the clock may move between the two datetime.now() of the guard
MaxDrift == 1

Ips == {"ip1", "ip2"}

Creds == {"good", "bad"}

LockTicks == BLOCK_LOCKOUT_TIME * TicksPerSec

Instants == (0..Window) \cup ((LockTicks - 1)..(LockTicks + Window + 1))

\* a coarser clock, for the specification of two identities
CoarseInstants == {LockTicks + Window + 1}

\* Optional[datetime]: None is the empty sequence, a value t is <<t>>
None == << >>

Some(t) == << t >>

VARIABLES
    BLOCKED,       \* security.BLOCKED: ip -> Blocked record (a dict, its domain grows)
    now,           \* the wall clock read by datetime.now(), in ticks
    inflight,      \* the requests between the guard's yield and its resumption (a bag)
    resp,          \* the response sent by the last step, NoResponse if it sent none
    first_lockout, \* history: per ip, the block_timeout its first lockout was given
    auth_failed    \* history: per ip, the requests the endpoint has answered with 401

\* ------------------------------------------------------------ pure functions

\* int(timedelta.total_seconds()): truncation toward zero
IntSeconds(d) == IF d >= 0 THEN d \div TicksPerSec ELSE -((-d) \div TicksPerSec)

\* Blocked(ip=ip, user_agent=user_agent, attempts=0, first_attempt_time=cur_time)
Blocked(attempts, first_attempt_time) ==
    [attempts |-> attempts,
     block_timeout |-> None,
     first_attempt_time |-> first_attempt_time,
     last_attempt_time |-> None]

\* faulty variant: every entry of the dict aliases one shared Blocked object
register_failure_aliased(B, ip, cur_time) ==
    LET B1 == IF ip \notin DOMAIN B
              THEN B @@ (ip :> Blocked(0, Some(cur_time)))
              ELSE B
        B2 == [B1 EXCEPT ![ip].attempts = @ + 1]
        B3 == IF B2[ip].attempts >= MAX_FAILURES
              THEN [B2 EXCEPT ![ip].last_attempt_time = Some(cur_time),
                              ![ip].block_timeout = Some(cur_time + LockTicks)]
              ELSE [B2 EXCEPT ![ip].last_attempt_time = Some(cur_time)]
    IN  [k \in DOMAIN B3 |-> B3[ip]]

\* faulty variant: the increment done only for a record that existed already
register_failure_lost(B, ip, cur_time) ==
    LET B2 == IF ip \notin DOMAIN B
              THEN B @@ (ip :> Blocked(0, Some(cur_time)))
              ELSE [B EXCEPT ![ip].attempts = @ + 1]
    IN  IF B2[ip].attempts >= MAX_FAILURES
        THEN [B2 EXCEPT ![ip].last_attempt_time = Some(cur_time),
                        ![ip].block_timeout = Some(cur_time + LockTicks)]
        ELSE [B2 EXCEPT ![ip].last_attempt_time = Some(cur_time)]

\* faulty variant: the threshold compared with > instead of >=
register_failure_late(B, ip, cur_time) ==
    LET B1 == IF ip \notin DOMAIN B
              THEN B @@ (ip :> Blocked(0, Some(cur_time)))
              ELSE B
        B2 == [B1 EXCEPT ![ip].attempts = @ + 1]
    IN  IF B2[ip].attempts > MAX_FAILURES
        THEN [B2 EXCEPT ![ip].last_attempt_time = Some(cur_time),
                        ![ip].block_timeout = Some(cur_time + LockTicks)]
        ELSE [B2 EXCEPT ![ip].last_attempt_time = Some(cur_time)]

\* faulty variant: a failure after the block was removed starts a new count
register_failure_allowance(B, ip, cur_time) ==
    LET B1 == IF ip \notin DOMAIN B
              THEN B @@ (ip :> Blocked(0, Some(cur_time)))
              ELSE IF B[ip].attempts >= MAX_FAILURES /\ B[ip].block_timeout = None
              THEN [B EXCEPT ![ip].attempts = 0]
              ELSE B
        B2 == [B1 EXCEPT ![ip].attempts = @ + 1]
    IN  IF B2[ip].attempts >= MAX_FAILURES
        THEN [B2 EXCEPT ![ip].last_attempt_time = Some(cur_time),
                        ![ip].block_timeout = Some(cur_time + LockTicks)]
        ELSE [B2 EXCEPT ![ip].last_attempt_time = Some(cur_time)]

\* faulty variant: last_attempt_time left as it was when the block is set
register_failure_stale(B, ip, cur_time) ==
    LET B1 == IF ip \notin DOMAIN B
              THEN B @@ (ip :> Blocked(0, Some(cur_time)))
              ELSE B
        B2 == [B1 EXCEPT ![ip].attempts = @ + 1]
    IN  IF B2[ip].attempts >= MAX_FAILURES
        THEN [B2 EXCEPT ![ip].block_timeout = Some(cur_time + LockTicks)]
        ELSE [B2 EXCEPT ![ip].last_attempt_time = Some(cur_time)]

\* faulty variant: first_attempt_time written at every registration
register_failure_first_moved(B, ip, cur_time) ==
    LET B1 == IF ip \notin DOMAIN B
              THEN B @@ (ip :> Blocked(0, Some(cur_time)))
              ELSE [B EXCEPT ![ip].first_attempt_time = Some(cur_time)]
        B2 == [B1 EXCEPT ![ip].attempts = @ + 1]
    IN  IF B2[ip].attempts >= MAX_FAILURES
        THEN [B2 EXCEPT ![ip].last_attempt_time = Some(cur_time),
                        ![ip].block_timeout = Some(cur_time + LockTicks)]
        ELSE [B2 EXCEPT ![ip].last_attempt_time = Some(cur_time)]

\* _register_failure(ip, user_agent) run at clock value cur_time, on store B
register_failure(B, ip, cur_time) ==
    LET B1 == IF ip \notin DOMAIN B
              THEN B @@ (ip :> Blocked(0, Some(cur_time)))
              ELSE B
        B2 == [B1 EXCEPT ![ip].attempts = @ + 1]
    IN  IF B2[ip].attempts >= MAX_FAILURES
        THEN [B2 EXCEPT ![ip].last_attempt_time = Some(cur_time),
                        ![ip].block_timeout = Some(cur_time + LockTicks)]
        ELSE [B2 EXCEPT ![ip].last_attempt_time = Some(cur_time)]

\* faulty variant: a block, once set, is never compared with the clock
Rejects_forever(B, ip, t) ==
    /\ ip \in DOMAIN B
    /\ B[ip].block_timeout # None

\* faulty variant: the comparison of line 29 reversed
Rejects_reversed(B, ip, t) ==
    /\ ip \in DOMAIN B
    /\ B[ip].block_timeout # None
    /\ B[ip].block_timeout[1] <= t

\* lines 27 and 29: the guard finds ip blocked at clock value t
Rejects(B, ip, t) ==
    /\ ip \in DOMAIN B
    /\ B[ip].block_timeout # None
    /\ B[ip].block_timeout[1] >= t

\* faulty variant: the expired block removed together with the count
ClearExpired_reset(B, ip, t) ==
    IF ip \in DOMAIN B /\ B[ip].block_timeout # None /\ ~(B[ip].block_timeout[1] >= t)
    THEN [B EXCEPT ![ip].block_timeout = None, ![ip].attempts = 0]
    ELSE B

\* faulty variant: the record itself removed when its block has expired
ClearExpired_delete(B, ip, t) ==
    IF ip \in DOMAIN B /\ B[ip].block_timeout # None /\ ~(B[ip].block_timeout[1] >= t)
    THEN [k \in DOMAIN B \ {ip} |-> B[k]]
    ELSE B

\* lines 27, 29 and 38-39: an expired block_timeout is removed
ClearExpired(B, ip, t) ==
    IF ip \in DOMAIN B /\ B[ip].block_timeout # None /\ ~(B[ip].block_timeout[1] >= t)
    THEN [B EXCEPT ![ip].block_timeout = None]
    ELSE B

\* line 31: the wait time of the message, the clock read again at t2
WaitTime(B, ip, t2) == IntSeconds(B[ip].block_timeout[1] - t2)

\* the endpoint's outcome: login raises 401 on a wrong password (auth.py 134-148)
LoginStatus(cred) == IF cred = "bad" THEN HTTP_401_UNAUTHORIZED ELSE HTTP_200_OK

Attempts(ip) == IF ip \in DOMAIN BLOCKED THEN BLOCKED[ip].attempts ELSE 0

Of(ip) == {r \in BagToSet(inflight) : r.ip = ip}

InFlight(ip) == BagCardinality([r \in Of(ip) |-> inflight[r]])

\* a request in flight
Request(pc, ip, cred, status) ==
    [pc |-> pc, ip |-> ip, cred |-> cred, status |-> status]

Response(ip, cred, status, wait) ==
    [ip |-> ip, cred |-> cred, status |-> status, wait |-> wait]

NoResponse == Response("", "", 0, 0)

Replace(r, q) == (inflight (-) SetToBag({r})) (+) SetToBag({q})

\* ------------------------------------------- the envelope layer: constants

\* encryption.MAX_REQUEST_AGE, in seconds
MAX_REQUEST_AGE == 60

\* the clock skew of line 110 of encryption.py, in seconds
CLOCK_SKEW == 5

\* int(time.time() * 1000): the timestamps of the envelope are milliseconds
MsPerSec == 1000

HTTP_400_BAD_REQUEST == 400

HTTP_404_NOT_FOUND == 404

HTTP_405_METHOD_NOT_ALLOWED == 405

HTTP_422_UNPROCESSABLE_ENTITY == 422

HTTP_500_INTERNAL_SERVER_ERROR == 500

\* --------------------------------------------- the envelope layer: bounds

\* the first reading of time.time(), in milliseconds
StartMs == 100000

\* requests that may be inside the middleware together
MaxPipe == 2

\* requests that may be inside the middleware together on the login route
MaxLoginPipe == 1

\* ---------------------------------------------- the envelope layer: state

VARIABLES
    environ,     \* os.environ and the key files: what Settings() is built from
    settings,    \* config.settings, once the module app.core.config is imported
    opened,      \* the key files load_keys has opened
    phase,       \* "boot", "configured", "serving" or "aborted"
    server_key,  \* encryption.server_key: None or the private key
    clock_ms,    \* int(time.time() * 1000)
    pipe,        \* the requests inside EncrpytionMiddleware.dispatch (a bag)
    sent         \* what the last step of the middleware did with a request

startup_vars == << environ, settings, opened, phase, server_key >>

codec_vars ==
    << environ, settings, opened, phase, server_key, clock_ms, pipe, sent >>

guard_vars == << BLOCKED, now, inflight, resp, first_lockout, auth_failed >>

vars == << BLOCKED, now, inflight, resp, first_lockout, auth_failed,
           environ, settings, opened, phase, server_key, clock_ms, pipe, sent >>

\* -------------------------------------------------- start-up: pure functions

\* key material as text: "" is unset, "pem" a well-formed PEM key, "garbage"
\* text that is no PEM key
KeyTexts == {"", "pem", "garbage"}

\* the file at PRIVATE_KEY_PATH or PUBLIC_KEY_PATH: its text, "absent" if
\* there is no such file, "unreadable" if open() or read() raises
FileStates == KeyTexts \cup {"absent", "unreadable"}

Environ(private_key, private_pem, public_key, public_pem, jwt_secret_key) ==
    [PRIVATE_KEY |-> private_key, private_pem |-> private_pem,
     PUBLIC_KEY |-> public_key, public_pem |-> public_pem,
     JWT_SECRET_KEY |-> jwt_secret_key]

\* the fields of Settings the model follows
Settings(private_key, public_key, jwt_secret_key) ==
    [PRIVATE_KEY |-> private_key, PUBLIC_KEY |-> public_key,
     JWT_SECRET_KEY |-> jwt_secret_key]

\* the module app.core.config is not imported yet
NoSettings == Settings("", "", "")

\* faulty variant: the key file, where there is one, wins over the inline
\* value
load_key_file_first(inline, file) ==
    IF file \notin {"absent", "unreadable"} THEN file ELSE inline

\* one key of load_keys: the inline value wins; the file is read only when
\* the inline value is empty and the file exists
load_key(inline, file) ==
    IF inline = "" /\ file \notin {"absent", "unreadable"} THEN file ELSE inline

\* Settings.load_keys on the values read from the environment
load_keys(e) ==
    Settings(load_key(e.PRIVATE_KEY, e.private_pem),
             load_key(e.PUBLIC_KEY, e.public_pem),
             e.JWT_SECRET_KEY)

\* lines 47-49 and 56-58: the files load_keys opens, those of the keys with
\* no inline value whose path exists
opened_files(e) ==
    {f \in {"private_pem", "public_pem"} :
        /\ e[IF f = "private_pem" THEN "PRIVATE_KEY" ELSE "PUBLIC_KEY"] = ""
        /\ e[f] # "absent"}

\* lines 52 and 61: os.environ receives the keys that were loaded
export_keys(e, s) ==
    [e EXCEPT !.PRIVATE_KEY = s.PRIVATE_KEY, !.PUBLIC_KEY = s.PUBLIC_KEY]

\* Settings.validate_env_vars_all_loaded: the required settings left empty
missing_required(s) ==
    {k \in {"PRIVATE_KEY", "PUBLIC_KEY", "JWT_SECRET_KEY"} : s[k] = ""}

\* jwk.JWK.from_pem inside the try of encryption.py 48-56: the private key
\* "srv", or None when the text is empty or raises on parsing
from_pem(text) == IF text = "pem" THEN Some("srv") ELSE None

\* ------------------------------------------ the envelope: pure functions

\* the body of a request as the middleware takes it apart:
\*   wrapper  "empty" (no bytes), "notjson", "nonobject" (JSON, no object),
\*            "nocontent" (an object without a truthy content), "content"
\*   token    "garbage" (no JWE serialization) or "jwe"
\*   recipient, intact, alg   the key the JWE is encrypted to, whether its
\*            bytes are as they were serialized, and its key algorithm
\*   inner    the plaintext: "notjson", "nonobject", "ts_not_number" (an
\*            object whose ts is no number) or "object"
\*   ts       the ts of the inner object, None if it has none
\*   payload, client_public_key   the other two fields of the inner object;
\*            client_public_key is "absent" (no such field, or null), "empty"
\*            (a value that is false in Python: {}, "", 0), "invalid" (any
\*            other value jwk.JWK or add_recipient raises on) or a key of
\*            ClientKeys
Body(wrapper, token, recipient, intact, alg, inner, ts, payload, client_public_key) ==
    [wrapper |-> wrapper, token |-> token, recipient |-> recipient,
     intact |-> intact, alg |-> alg, inner |-> inner, ts |-> ts,
     payload |-> payload, client_public_key |-> client_public_key]

HttpRequest(method, path, ip, body) ==
    [method |-> method, path |-> path, ip |-> ip, body |-> body]

EmptyBody == Body("empty", "garbage", "other", FALSE, "", "notjson", None, "", "absent")

NoRequest == HttpRequest("", "", "", EmptyBody)

\* the key algorithms jwcrypto accepts for the server's RSA key
SupportedAlgs == {"RSA-OAEP-256"}

\* line 66: the requests that bypass the envelope
Exempt(req) == req.method = "OPTIONS" \/ req.path \in {"/docs", "/openapi.json"}

\* lines 83-84: json.loads or body_json.get raises
wrapper_raises(body) == body.wrapper \in {"notjson", "nonobject"}

\* line 87: not encrypted_content
content_missing(body) == body.wrapper = "nocontent"

\* line 92: jwetoken.deserialize raises
deserialize_raises(body) == body.token = "garbage"

\* faulty variant: a missing server key lets the ciphertext through
decrypt_raises_open(body, key) ==
    /\ key # None
    /\ \/ key[1] # body.recipient
       \/ ~body.intact
       \/ body.alg \notin SupportedAlgs

\* line 93: jwetoken.decrypt(server_key) raises
decrypt_raises(body, key) ==
    \/ key = None
    \/ key[1] # body.recipient
    \/ ~body.intact
    \/ body.alg \notin SupportedAlgs

\* lines 96, 101 and 107: json.loads, decrypted_wrapper.get or the
\* subtraction raises
payload_raises(body) == body.inner \in {"notjson", "nonobject", "ts_not_number"}

\* faulty variant: an envelope without ts is taken to be of this instant
request_ts_now(body) == IF body.ts = None THEN clock_ms ELSE body.ts[1]

\* line 101: decrypted_wrapper.get("ts", 0)
request_ts(body) == IF body.ts = None THEN 0 ELSE body.ts[1]

\* faulty variant: both comparisons of line 110 made non-strict
expired_strictly_inside(body, current_ts) ==
    LET age_ms == current_ts - request_ts(body)
    IN  \/ age_ms >= MAX_REQUEST_AGE * MsPerSec
        \/ age_ms <= -(CLOCK_SKEW * MsPerSec)

\* lines 107 and 110: age_seconds = (current_ts - request_ts) / 1000 is
\* compared as a fraction, age_ms / MsPerSec
expired(body, current_ts) ==
    LET age_ms == current_ts - request_ts(body)
    IN  \/ age_ms > MAX_REQUEST_AGE * MsPerSec
        \/ age_ms < -(CLOCK_SKEW * MsPerSec)

\* lines 116 and 127: json.dumps(decrypted_wrapper.get("payload")); the
\* payloads of the model are JSON texts as json.dumps writes them, and a
\* wrapper without payload ("absent") gives None, written null
json_dumps(payload) == IF payload = "absent" THEN "null" ELSE payload

\* what the inbound half of dispatch decides: a response, or the request
\* handed to call_next with the body and the reply key it carries
Respond(status, detail) ==
    [forward |-> FALSE, status |-> status, detail |-> detail,
     body |-> "", decrypted |-> FALSE, client_pub_key_json |-> "absent"]

Forward(body, decrypted, client_pub_key_json) ==
    [forward |-> TRUE, status |-> 0, detail |-> "",
     body |-> body, decrypted |-> decrypted,
     client_pub_key_json |-> client_pub_key_json]

\* faulty variant: the freshness of the envelope looked at before it is
\* decrypted
inbound_ts_first(req, key, current_ts) ==
    IF Exempt(req) THEN Forward("wire", FALSE, "absent")
    ELSE IF req.body.wrapper = "empty" THEN Forward("", FALSE, "absent")
    ELSE IF wrapper_raises(req.body)
         THEN Respond(HTTP_400_BAD_REQUEST, "Handshake Failed")
    ELSE IF content_missing(req.body)
         THEN Respond(HTTP_400_BAD_REQUEST, "Content is missing")
    ELSE IF expired(req.body, current_ts)
         THEN Respond(HTTP_403_FORBIDDEN, "Request expired")
    ELSE IF \/ deserialize_raises(req.body)
            \/ decrypt_raises(req.body, key)
            \/ payload_raises(req.body)
         THEN Respond(HTTP_400_BAD_REQUEST, "Handshake Failed")
    ELSE Forward(json_dumps(req.body.payload), TRUE, req.body.client_public_key)

\* faulty variant: a body that is no JSON answered like a missing content
inbound_json_checked(req, key, current_ts) ==
    IF Exempt(req) THEN Forward("wire", FALSE, "absent")
    ELSE IF req.body.wrapper = "empty" THEN Forward("", FALSE, "absent")
    ELSE IF wrapper_raises(req.body) \/ content_missing(req.body)
         THEN Respond(HTTP_400_BAD_REQUEST, "Content is missing")
    ELSE IF \/ deserialize_raises(req.body)
            \/ decrypt_raises(req.body, key)
            \/ payload_raises(req.body)
         THEN Respond(HTTP_400_BAD_REQUEST, "Handshake Failed")
    ELSE IF expired(req.body, current_ts)
         THEN Respond(HTTP_403_FORBIDDEN, "Request expired")
    ELSE Forward(json_dumps(req.body.payload), TRUE, req.body.client_public_key)

\* faulty variant: a plaintext that is no JSON object answered on its own
inbound_payload_told(req, key, current_ts) ==
    IF Exempt(req) THEN Forward("wire", FALSE, "absent")
    ELSE IF req.body.wrapper = "empty" THEN Forward("", FALSE, "absent")
    ELSE IF wrapper_raises(req.body)
         THEN Respond(HTTP_400_BAD_REQUEST, "Handshake Failed")
    ELSE IF content_missing(req.body)
         THEN Respond(HTTP_400_BAD_REQUEST, "Content is missing")
    ELSE IF deserialize_raises(req.body) \/ decrypt_raises(req.body, key)
         THEN Respond(HTTP_400_BAD_REQUEST, "Handshake Failed")
    ELSE IF payload_raises(req.body)
         THEN Respond(HTTP_422_UNPROCESSABLE_ENTITY, "Handshake Failed")
    ELSE IF expired(req.body, current_ts)
         THEN Respond(HTTP_403_FORBIDDEN, "Request expired")
    ELSE Forward(json_dumps(req.body.payload), TRUE, req.body.client_public_key)

\* faulty variant: the client key is looked at before the request is handed
\* on, and a key that is no key refused
inbound_key_checked(req, key, current_ts) ==
    IF Exempt(req) THEN Forward("wire", FALSE, "absent")
    ELSE IF req.body.wrapper = "empty" THEN Forward("", FALSE, "absent")
    ELSE IF wrapper_raises(req.body)
         THEN Respond(HTTP_400_BAD_REQUEST, "Handshake Failed")
    ELSE IF content_missing(req.body)
         THEN Respond(HTTP_400_BAD_REQUEST, "Content is missing")
    ELSE IF \/ deserialize_raises(req.body)
            \/ decrypt_raises(req.body, key)
            \/ payload_raises(req.body)
            \/ req.body.client_public_key = "invalid"
         THEN Respond(HTTP_400_BAD_REQUEST, "Handshake Failed")
    ELSE IF expired(req.body, current_ts)
         THEN Respond(HTTP_403_FORBIDDEN, "Request expired")
    ELSE Forward(json_dumps(req.body.payload), TRUE, req.body.client_public_key)

\* faulty variant: the body of the request is left as it came
inbound_body_kept(req, key, current_ts) ==
    IF Exempt(req) THEN Forward("wire", FALSE, "absent")
    ELSE IF req.body.wrapper = "empty" THEN Forward("", FALSE, "absent")
    ELSE IF wrapper_raises(req.body)
         THEN Respond(HTTP_400_BAD_REQUEST, "Handshake Failed")
    ELSE IF content_missing(req.body)
         THEN Respond(HTTP_400_BAD_REQUEST, "Content is missing")
    ELSE IF \/ deserialize_raises(req.body)
            \/ decrypt_raises(req.body, key)
            \/ payload_raises(req.body)
         THEN Respond(HTTP_400_BAD_REQUEST, "Handshake Failed")
    ELSE IF expired(req.body, current_ts)
         THEN Respond(HTTP_403_FORBIDDEN, "Request expired")
    ELSE Forward("wire", TRUE, req.body.client_public_key)

\* dispatch, lines 66-132, on the request req with server_key = key and
\* int(time.time() * 1000) = current_ts
inbound(req, key, current_ts) ==
    IF Exempt(req) THEN Forward("wire", FALSE, "absent")
    ELSE IF req.body.wrapper = "empty" THEN Forward("", FALSE, "absent")
    ELSE IF wrapper_raises(req.body)
         THEN Respond(HTTP_400_BAD_REQUEST, "Handshake Failed")
    ELSE IF content_missing(req.body)
         THEN Respond(HTTP_400_BAD_REQUEST, "Content is missing")
    ELSE IF \/ deserialize_raises(req.body)
            \/ decrypt_raises(req.body, key)
            \/ payload_raises(req.body)
         THEN Respond(HTTP_400_BAD_REQUEST, "Handshake Failed")
    ELSE IF expired(req.body, current_ts)
         THEN Respond(HTTP_403_FORBIDDEN, "Request expired")
    ELSE Forward(json_dumps(req.body.payload), TRUE, req.body.client_public_key)

\* a request inside dispatch: handed to call_next ("forwarded"), inside the
\* guarded endpoint ("in_app"), or back with the status of its response
\* ("returned")
PipeRequest(pc, method, path, ip, body, decrypted, client_pub_key_json, status) ==
    [pc |-> pc, method |-> method, path |-> path, ip |-> ip, body |-> body,
     decrypted |-> decrypted, client_pub_key_json |-> client_pub_key_json,
     status |-> status]

NoPipeRequest == PipeRequest("", "", "", "", "", FALSE, "absent", 0)

\* the body of a response on the wire: text in the clear, or the object
\* {"content": <JWE>} whose JWE holds text encrypted to the key recipient
PlainBody(text) == [encrypted |-> FALSE, recipient |-> "none", text |-> text]

\* lines 163-171: the JWE of response_body for client_key, inside "content"
jwe_encrypt(text, client_key) ==
    [encrypted |-> TRUE, recipient |-> client_key, text |-> text]

\* tests/test_encryption.py 71-78, decrypt_response: the client opens the
\* content with its private key; None if the body has no content or the JWE
\* is encrypted to another key
decrypt_response(body, client_key) ==
    IF body.encrypted /\ body.recipient = client_key
    THEN Some(body.text)
    ELSE None

\* main.py 74-75: the prefixes of the routers the application includes
IncludedRouters == {"/auth", "/bingo"}

\* crypto.py 20-38, get_public_key with the settings s
get_public_key(s) ==
    IF s.PUBLIC_KEY = ""
    THEN [status |-> HTTP_500_INTERNAL_SERVER_ERROR,
          text |-> << "Public key not configured" >>]
    ELSE [status |-> HTTP_200_OK, text |-> << s.PUBLIC_KEY >>]

\* the detail of the HTTPException or of the validation error behind a
\* status
StatusDetail(status) ==
    CASE status = HTTP_400_BAD_REQUEST -> "Bad Request"
      [] status = HTTP_401_UNAUTHORIZED -> "Invalid credentials"
      [] status = HTTP_403_FORBIDDEN -> "Forbidden"
      [] status = HTTP_404_NOT_FOUND -> "Not Found"
      [] status = HTTP_405_METHOD_NOT_ALLOWED -> "Method Not Allowed"
      [] status = HTTP_422_UNPROCESSABLE_ENTITY -> "Unprocessable Entity"
      [] OTHER -> "Internal Server Error"

\* the body of the response call_next returned for p, as the words of its
\* JSON text
ResponseText(p) ==
    IF p.path = "/crypto/public-key" /\ "/crypto" \in IncludedRouters
    THEN get_public_key(settings).text
    ELSE IF p.status = HTTP_200_OK
    THEN IF p.path = "/health" THEN << "All is healthy and good" >>
         ELSE IF p.path = "/docs" THEN << "swagger-ui" >>
         ELSE << "success", "true" >>
    ELSE << "detail", StatusDetail(p.status) >>

\* the Set-Cookie headers of the response call_next returned for p: login
\* sets the two tokens (auth.py 180-181), logout deletes them (190-191)
ResponseHeaders(p) ==
    IF p.status = HTTP_200_OK /\ p.path \in {"/auth/login", "/auth/logout"}
    THEN {"set-cookie: access_token", "set-cookie: refresh_token"}
    ELSE {}

\* response.body_iterator: the body comes in chunks, here of one word each
body_iterator(p) == [i \in 1..Len(ResponseText(p)) |-> << ResponseText(p)[i] >>]

RECURSIVE consume(_)

\* faulty variant: each chunk replaces the ones read before it
consume_last(chunks) ==
    IF chunks = << >> THEN << >> ELSE chunks[Len(chunks)]

\* lines 152-154: response_body is the concatenation of the chunks
consume(chunks) ==
    IF chunks = << >> THEN << >> ELSE Head(chunks) \o consume(Tail(chunks))

\* what a step of the middleware did: the request it took in (req) or the
\* request it answered (rec), and the response it sent, status 0 if none;
\* enc is the key the body of the response is encrypted to, "none" if plain
\* body is the body of the response as it leaves, by default the text of
\* detail in the clear; headers are the Set-Cookie headers it carries, by
\* default none
Sent(req, rec, status, detail, enc) ==
    [req |-> req, rec |-> rec, status |-> status, detail |-> detail, enc |-> enc,
     body |-> PlainBody(IF detail = "" THEN << >> ELSE << detail >>),
     headers |-> {}]

NoSent == Sent(NoRequest, NoPipeRequest, 0, "", "none")

\* the reply keys jwk.JWK(**client_pub_key_json) accepts
ClientKeys == {"ck1", "ck2"}

\* faulty variant: the reply key is kept in one place for all requests, and
\* the response is encrypted to the key of another request in the middleware
outbound_shared(p) ==
    LET others == {q \in BagToSet(pipe) : q.client_pub_key_json \in ClientKeys
                                           /\ q.client_pub_key_json # p.client_pub_key_json}
        client_key == IF others = {} THEN p.client_pub_key_json
                      ELSE (CHOOSE q \in others : TRUE).client_pub_key_json
    IN  IF p.status = HTTP_500_INTERNAL_SERVER_ERROR
        THEN Sent(NoRequest, p, p.status, "Internal Server Error", "none")
        ELSE IF p.client_pub_key_json \notin {"absent", "empty"}
        THEN IF p.client_pub_key_json \in ClientKeys
             THEN [Sent(NoRequest, p, p.status, "", client_key)
                     EXCEPT !.body = jwe_encrypt(consume(body_iterator(p)), client_key)]
             ELSE Sent(NoRequest, p, HTTP_500_INTERNAL_SERVER_ERROR,
                       "Secure Channel Error", "none")
        ELSE [Sent(NoRequest, p, p.status, "", "none")
                EXCEPT !.body = PlainBody(consume(body_iterator(p))),
                   !.headers = ResponseHeaders(p)]

\* faulty variant: the response that replaces the handler's is built with
\* the default status
outbound_ok(p) ==
    IF p.status = HTTP_500_INTERNAL_SERVER_ERROR
    THEN Sent(NoRequest, p, p.status, "Internal Server Error", "none")
    ELSE IF p.client_pub_key_json \notin {"absent", "empty"}
    THEN IF p.client_pub_key_json \in ClientKeys
         THEN [Sent(NoRequest, p, HTTP_200_OK, "", p.client_pub_key_json)
                 EXCEPT !.body = jwe_encrypt(consume(body_iterator(p)),
                                             p.client_pub_key_json)]
         ELSE Sent(NoRequest, p, HTTP_500_INTERNAL_SERVER_ERROR,
                   "Secure Channel Error", "none")
    ELSE [Sent(NoRequest, p, p.status, "", "none")
            EXCEPT !.body = PlainBody(consume(body_iterator(p))),
                   !.headers = ResponseHeaders(p)]

\* dispatch, lines 141-179: the response for the request p that came back
\* from call_next with p.status
outbound(p) ==
    IF p.status = HTTP_500_INTERNAL_SERVER_ERROR
    THEN Sent(NoRequest, p, p.status, "Internal Server Error", "none")
    ELSE IF p.client_pub_key_json \notin {"absent", "empty"}
    THEN IF p.client_pub_key_json \in ClientKeys
         THEN [Sent(NoRequest, p, p.status, "", p.client_pub_key_json)
                 EXCEPT !.body = jwe_encrypt(consume(body_iterator(p)),
                                             p.client_pub_key_json)]
         ELSE Sent(NoRequest, p, HTTP_500_INTERNAL_SERVER_ERROR,
                   "Secure Channel Error", "none")
    ELSE [Sent(NoRequest, p, p.status, "", "none")
            EXCEPT !.body = PlainBody(consume(body_iterator(p))),
                   !.headers = ResponseHeaders(p)]

PipeReplace(p, q) == (pipe (-) SetToBag({p})) (+) SetToBag({q})

\* --------------------------------------------------------------------- Init

\* the failure store of a process that has served no request yet
InitGuard ==
    /\ BLOCKED = << >>
    /\ now = 0
    /\ inflight = EmptyBag
    /\ resp = NoResponse
    /\ first_lockout = [ip \in Ips |-> None]
    /\ auth_failed = [ip \in Ips |-> 0]

\* no request is inside the middleware
InitPipe ==
    /\ clock_ms = StartMs
    /\ pipe = EmptyBag
    /\ sent = NoSent

\* a process that was started with its keys configured and serves
Init ==
    /\ InitGuard
    /\ InitPipe
    /\ environ = Environ("pem", "absent", "pem", "absent", "secret")
    /\ settings = Settings("pem", "pem", "secret")
    /\ opened = {}
    /\ phase = "serving"
    /\ server_key = Some("srv")

\* a process about to import app.core.config, with the environment e
InitBoot(e) ==
    /\ InitGuard
    /\ InitPipe
    /\ environ = e
    /\ settings = NoSettings
    /\ opened = {}
    /\ phase = "boot"
    /\ server_key = None

\* ------------------------------------------------------------------ actions

\* the clock moves on
AdvanceTime(t) ==
    /\ t > now
    /\ now' = t
    /\ resp' = NoResponse
    /\ UNCHANGED << BLOCKED, inflight, first_lockout, auth_failed >>

\* rate_limit_gaurd up to its yield (lines 21-43): a request from ip arrives
rate_limit_gaurd(ip, cred) ==
    /\ BagCardinality(inflight) < MaxInFlight
    /\ Attempts(ip) + InFlight(ip) < MAX_FAILURES + ExtraFailures
    /\ IF Rejects(BLOCKED, ip, now)
       THEN \E t2 \in {t \in Instants : t >= now /\ t <= now + MaxDrift} :
               /\ now' = t2
               /\ resp' = Response(ip, cred, HTTP_403_FORBIDDEN,
                                   WaitTime(BLOCKED, ip, t2))
               /\ UNCHANGED << BLOCKED, inflight, first_lockout, auth_failed >>
       ELSE /\ BLOCKED' = ClearExpired(BLOCKED, ip, now)
            /\ inflight' = inflight (+) SetToBag({Request("admitted", ip, cred, 0)})
            /\ resp' = NoResponse
            /\ UNCHANGED << now, first_lockout, auth_failed >>

\* the login endpoint (auth.py 118-183), run while the guard is suspended
login(r) ==
    /\ r.pc = "admitted"
    /\ inflight' = Replace(r, [r EXCEPT !.pc = "handled", !.status = LoginStatus(r.cred)])
    /\ auth_failed' =
          IF LoginStatus(r.cred) = HTTP_401_UNAUTHORIZED
          THEN [auth_failed EXCEPT ![r.ip] = @ + 1]
          ELSE auth_failed
    /\ resp' = NoResponse
    /\ UNCHANGED << BLOCKED, now, first_lockout >>

\* faulty variant: every error status of the endpoint counted as a failure
rate_limit_gaurd_exit_any(r) ==
    /\ r.pc = "handled"
    /\ IF r.status >= HTTP_400_BAD_REQUEST
       THEN /\ BLOCKED' = register_failure(BLOCKED, r.ip, now)
            /\ first_lockout' =
                  IF first_lockout[r.ip] = None
                  THEN [first_lockout EXCEPT ![r.ip] = BLOCKED'[r.ip].block_timeout]
                  ELSE first_lockout
       ELSE UNCHANGED << BLOCKED, first_lockout >>
    /\ inflight' = inflight (-) SetToBag({r})
    /\ resp' = Response(r.ip, r.cred, r.status, 0)
    /\ UNCHANGED << now, auth_failed >>

\* faulty variant: a success resets the count of a tracked identity
rate_limit_gaurd_exit_reset(r) ==
    /\ r.pc = "handled"
    /\ IF r.status = HTTP_401_UNAUTHORIZED
       THEN /\ BLOCKED' = register_failure(BLOCKED, r.ip, now)
            /\ first_lockout' =
                  IF first_lockout[r.ip] = None
                  THEN [first_lockout EXCEPT ![r.ip] = BLOCKED'[r.ip].block_timeout]
                  ELSE first_lockout
       ELSE /\ BLOCKED' = IF r.ip \in DOMAIN BLOCKED
                           THEN [BLOCKED EXCEPT ![r.ip].attempts = 0]
                           ELSE BLOCKED
            /\ UNCHANGED first_lockout
    /\ inflight' = inflight (-) SetToBag({r})
    /\ resp' = Response(r.ip, r.cred, r.status, 0)
    /\ UNCHANGED << now, auth_failed >>

\* rate_limit_gaurd after its yield (lines 42-47): the endpoint's outcome comes back
rate_limit_gaurd_exit(r) ==
    /\ r.pc = "handled"
    /\ IF r.status = HTTP_401_UNAUTHORIZED
       THEN /\ BLOCKED' = register_failure(BLOCKED, r.ip, now)
            /\ first_lockout' =
                  IF first_lockout[r.ip] = None
                  THEN [first_lockout EXCEPT ![r.ip] = BLOCKED'[r.ip].block_timeout]
                  ELSE first_lockout
       ELSE UNCHANGED << BLOCKED, first_lockout >>
    /\ inflight' = inflight (-) SetToBag({r})
    /\ resp' = Response(r.ip, r.cred, r.status, 0)
    /\ UNCHANGED << now, auth_failed >>

\* requests of one identity
Next ==
    \/ \E t \in Instants : AdvanceTime(t) /\ UNCHANGED codec_vars
    \/ \E cred \in Creds : rate_limit_gaurd("ip1", cred) /\ UNCHANGED codec_vars
    \/ \E r \in BagToSet(inflight) : login(r) /\ UNCHANGED codec_vars
    \/ \E r \in BagToSet(inflight) : rate_limit_gaurd_exit(r) /\ UNCHANGED codec_vars

Spec == Init /\ [][Next]_vars

\* the clock keeps advancing, requests of the identity keep coming, and the
\* endpoint and the guard finish what they started
SpecLive ==
    /\ Init
    /\ [][Next]_vars
    /\ WF_vars(\E t \in Instants : AdvanceTime(t) /\ UNCHANGED codec_vars)
    /\ WF_vars(\E cred \in Creds : rate_limit_gaurd("ip1", cred) /\ UNCHANGED codec_vars)
    /\ WF_vars(\E r \in BagToSet(inflight) : login(r) /\ UNCHANGED codec_vars)
    /\ WF_vars(\E r \in BagToSet(inflight) :
                  rate_limit_gaurd_exit(r) /\ UNCHANGED codec_vars)

\* requests of two identities; the failures of both together are capped
NextTwo ==
    \/ \E t \in CoarseInstants : AdvanceTime(t) /\ UNCHANGED codec_vars
    \/ \E ip \in Ips, cred \in Creds :
          /\ Attempts("ip1") + Attempts("ip2") + BagCardinality(inflight)
                < MAX_FAILURES + ExtraFailures
          /\ rate_limit_gaurd(ip, cred)
          /\ UNCHANGED codec_vars
    \/ \E r \in BagToSet(inflight) : login(r) /\ UNCHANGED codec_vars
    \/ \E r \in BagToSet(inflight) : rate_limit_gaurd_exit(r) /\ UNCHANGED codec_vars

SpecTwo == Init /\ [][NextTwo]_vars

\* ------------------------------------------------------- start-up: actions

\* settings = Settings() at the import of app.core.config (line 156):
\* load_keys, then validate_env_vars_all_loaded, whose ValueError ends the
\* import and with it the process
Settings_init ==
    /\ phase = "boot"
    /\ environ' = export_keys(environ, load_keys(environ))
    /\ opened' = opened_files(environ)
    /\ IF missing_required(load_keys(environ)) = {}
       THEN settings' = load_keys(environ) /\ phase' = "configured"
       ELSE settings' = settings /\ phase' = "aborted"
    /\ UNCHANGED << server_key, clock_ms, pipe, sent >>
    /\ UNCHANGED guard_vars

\* the import of app.middleware.encryption (lines 47-56) sets server_key,
\* after which the application serves
load_server_key ==
    /\ phase = "configured"
    /\ server_key' = from_pem(settings.PRIVATE_KEY)
    /\ phase' = "serving"
    /\ UNCHANGED << environ, settings, opened, clock_ms, pipe, sent >>
    /\ UNCHANGED guard_vars

\* ---------------------------------------------------- the envelope: actions

\* time.time() moves on
AdvanceClock(t) ==
    /\ phase = "serving"
    /\ t > clock_ms
    /\ clock_ms' = t
    /\ sent' = NoSent
    /\ UNCHANGED << startup_vars, pipe >>
    /\ UNCHANGED guard_vars

\* faulty variant: a request that is turned away makes the middleware drop
\* its key
dispatch_reload(req) ==
    /\ phase = "serving"
    /\ BagCardinality(pipe) < MaxPipe
    /\ IF inbound(req, server_key, clock_ms).forward
       THEN /\ pipe' = pipe (+) SetToBag({
                  PipeRequest("forwarded", req.method, req.path, req.ip,
                              inbound(req, server_key, clock_ms).body,
                              inbound(req, server_key, clock_ms).decrypted,
                              inbound(req, server_key, clock_ms).client_pub_key_json,
                              0)})
            /\ sent' = Sent(req, NoPipeRequest, 0, "", "none")
            /\ server_key' = server_key
       ELSE /\ pipe' = pipe
            /\ sent' = Sent(req, NoPipeRequest,
                            inbound(req, server_key, clock_ms).status,
                            inbound(req, server_key, clock_ms).detail, "none")
            /\ server_key' = None
    /\ UNCHANGED << environ, settings, opened, phase, clock_ms >>
    /\ UNCHANGED guard_vars

\* faulty variant: the middleware remembers the envelopes it is working on
\* and turns a second copy away
dispatch_once(req) ==
    /\ phase = "serving"
    /\ BagCardinality(pipe) < MaxPipe
    /\ IF /\ inbound(req, server_key, clock_ms).forward
          /\ ~\E q \in BagToSet(pipe) :
                /\ q.decrypted
                /\ q.path = req.path
                /\ q.body = req.body.payload
                /\ q.client_pub_key_json = req.body.client_public_key
       THEN /\ pipe' = pipe (+) SetToBag({
                  PipeRequest("forwarded", req.method, req.path, req.ip,
                              inbound(req, server_key, clock_ms).body,
                              inbound(req, server_key, clock_ms).decrypted,
                              inbound(req, server_key, clock_ms).client_pub_key_json,
                              0)})
            /\ sent' = Sent(req, NoPipeRequest, 0, "", "none")
       ELSE /\ pipe' = pipe
            /\ sent' = Sent(req, NoPipeRequest,
                            IF inbound(req, server_key, clock_ms).forward
                            THEN HTTP_403_FORBIDDEN
                            ELSE inbound(req, server_key, clock_ms).status,
                            IF inbound(req, server_key, clock_ms).forward
                            THEN "Request expired"
                            ELSE inbound(req, server_key, clock_ms).detail,
                            "none")
    /\ UNCHANGED << startup_vars, clock_ms >>
    /\ UNCHANGED guard_vars

\* dispatch up to call_next (lines 63-141): the request req comes in
dispatch(req) ==
    /\ phase = "serving"
    /\ BagCardinality(pipe) < MaxPipe
    /\ IF inbound(req, server_key, clock_ms).forward
       THEN /\ pipe' = pipe (+) SetToBag({
                  PipeRequest("forwarded", req.method, req.path, req.ip,
                              inbound(req, server_key, clock_ms).body,
                              inbound(req, server_key, clock_ms).decrypted,
                              inbound(req, server_key, clock_ms).client_pub_key_json,
                              0)})
            /\ sent' = Sent(req, NoPipeRequest, 0, "", "none")
       ELSE /\ pipe' = pipe
            /\ sent' = Sent(req, NoPipeRequest,
                            inbound(req, server_key, clock_ms).status,
                            inbound(req, server_key, clock_ms).detail, "none")
    /\ UNCHANGED << startup_vars, clock_ms >>
    /\ UNCHANGED guard_vars

\* the route of p is the login endpoint, which depends on rate_limit_gaurd
Guarded(p) == p.method = "POST" /\ p.path = "/auth/login"

\* the status of the routes that do not depend on the guard: logout
\* (auth.py 186-193), health (main.py 81-83), the docs, the public key if
\* its router is included and 404 if not; 405 otherwise
RouteStatus(p) ==
    IF p.path = "/crypto/public-key"
    THEN IF "/crypto" \notin IncludedRouters THEN HTTP_404_NOT_FOUND
         ELSE IF p.method = "GET" THEN get_public_key(settings).status
         ELSE HTTP_405_METHOD_NOT_ALLOWED
    ELSE
    IF \/ p.method = "POST" /\ p.path = "/auth/logout"
       \/ p.method = "GET" /\ p.path \in {"/health", "/docs"}
    THEN HTTP_200_OK
    ELSE HTTP_405_METHOD_NOT_ALLOWED

\* call_next reaches the login route: the guard runs up to its yield
call_guarded(p) ==
    /\ p.pc = "forwarded"
    /\ Guarded(p)
    /\ rate_limit_gaurd(p.ip, p.body)
    /\ pipe' = IF resp'.status = HTTP_403_FORBIDDEN
               THEN PipeReplace(p, [p EXCEPT !.pc = "returned",
                                             !.status = HTTP_403_FORBIDDEN])
               ELSE PipeReplace(p, [p EXCEPT !.pc = "in_app"])
    /\ sent' = NoSent
    /\ UNCHANGED << startup_vars, clock_ms >>

\* the protected endpoint ends otherwise than login's 200 and 401: the body
\* fails validation (422), the handler raises HTTPException 400 or 403, or
\* it raises another exception (500)
endpoint_fails(r, status) ==
    /\ r.pc = "admitted"
    /\ r.cred \notin Creds => status = HTTP_422_UNPROCESSABLE_ENTITY
    /\ inflight' = Replace(r, [r EXCEPT !.pc = "handled", !.status = status])
    /\ resp' = NoResponse
    /\ UNCHANGED << BLOCKED, now, first_lockout, auth_failed >>

\* the guard resumes for the request p of the middleware, and call_next
\* returns the response
return_guarded(p) ==
    /\ p.pc = "in_app"
    /\ \E r \in BagToSet(inflight) :
          /\ r.ip = p.ip
          /\ r.cred = p.body
          /\ rate_limit_gaurd_exit(r)
          /\ pipe' = PipeReplace(p, [p EXCEPT !.pc = "returned", !.status = r.status])
    /\ sent' = NoSent
    /\ UNCHANGED << startup_vars, clock_ms >>

\* call_next for a route that does not depend on the guard
call_unguarded(p) ==
    /\ p.pc = "forwarded"
    /\ ~Guarded(p)
    /\ pipe' = PipeReplace(p, [p EXCEPT !.pc = "returned", !.status = RouteStatus(p)])
    /\ sent' = NoSent
    /\ UNCHANGED << startup_vars, clock_ms >>
    /\ UNCHANGED guard_vars

\* faulty variant: when the response cannot be encrypted the request is
\* handed to call_next once more
dispatch_return_retry(p) ==
    /\ p.pc = "returned"
    /\ pipe' = IF outbound(p).detail = "Secure Channel Error"
               THEN PipeReplace(p, [p EXCEPT !.pc = "forwarded", !.status = 0])
               ELSE pipe (-) SetToBag({p})
    /\ sent' = outbound(p)
    /\ UNCHANGED << startup_vars, clock_ms >>
    /\ UNCHANGED guard_vars

\* dispatch after call_next (lines 141-179): the response goes out
dispatch_return(p) ==
    /\ p.pc = "returned"
    /\ pipe' = pipe (-) SetToBag({p})
    /\ sent' = outbound(p)
    /\ UNCHANGED << startup_vars, clock_ms >>
    /\ UNCHANGED guard_vars

\* a step of the endpoint, seen from the middleware
InsideApp == sent' = NoSent /\ UNCHANGED << startup_vars, clock_ms, pipe >>

\* ages of an envelope, in milliseconds, on both sides of the two limits of
\* the freshness window and at the values of tests/test_encryption.py
AgeOffsets ==
    {-(10 * MsPerSec), -(CLOCK_SKEW * MsPerSec) - 1, -(CLOCK_SKEW * MsPerSec),
     0, MsPerSec, MAX_REQUEST_AGE * MsPerSec, MAX_REQUEST_AGE * MsPerSec + 1,
     70 * MsPerSec}

ClockInstants == {StartMs, StartMs + MsPerSec}

\* the ts a client may send at clock value t
Timestamps(t) == {None} \cup {Some(t - a) : a \in AgeOffsets}

\* a well-formed envelope for the server
Envelope(ts, payload, client_public_key) ==
    Body("content", "jwe", "srv", TRUE, "RSA-OAEP-256", "object",
         ts, payload, client_public_key)

\* bodies that are no envelope, or whose content does not decrypt or parse;
\* each of the latter once fresh and once stale
BrokenBodies(t) ==
    {Body(w, "garbage", "other", FALSE, "", "notjson", None, "", "absent") :
        w \in {"notjson", "nonobject", "nocontent"}}
    \cup {Body("content", "garbage", "other", FALSE, "", "notjson", ts, "ping", "absent") :
        ts \in {Some(t), Some(t - 70 * MsPerSec)}}
    \cup {Body("content", "jwe", k[1], k[2], k[3], "object", ts, "ping", "ck1") :
        k \in {<< "other", TRUE, "RSA-OAEP-256" >>,
               << "srv", FALSE, "RSA-OAEP-256" >>,
               << "srv", TRUE, "unsupported" >>},
        ts \in {Some(t), Some(t - 70 * MsPerSec)}}
    \cup {Body("content", "jwe", "srv", TRUE, "RSA-OAEP-256", i, ts, "ping", "absent") :
        i \in {"notjson", "nonobject", "ts_not_number"},
        ts \in {Some(t), Some(t - 70 * MsPerSec)}}

\* a body that is no JSON
NotJson == Body("notjson", "garbage", "other", FALSE, "", "notjson", None, "", "absent")

\* the requests of the specification of the envelope: every kind of body on
\* a route that takes one, the docs, a preflight, the health check and the
\* public key, the last four without a body or with one that is no JSON
CodecRequests(t) ==
    {HttpRequest("POST", "/auth/logout", "ip1", b) :
        b \in {EmptyBody} \cup BrokenBodies(t)
              \cup {Envelope(ts, "ping", "absent") : ts \in Timestamps(t)}
              \cup {Envelope(Some(t), "ping", k) :
                      k \in {"empty", "invalid"} \cup ClientKeys}
              \cup {Envelope(Some(t), "absent", "ck1")}}
    \cup {HttpRequest("GET", "/docs", "ip1", EmptyBody),
          HttpRequest("OPTIONS", "/auth/login", "ip1", Envelope(Some(t), "good", "absent"))}
    \cup {HttpRequest("GET", path, "ip1", NotJson) : path \in {"/docs", "/health"}}
    \cup {HttpRequest("GET", path, "ip1", EmptyBody) :
            path \in {"/health", "/crypto/public-key"}}

\* the environments of the specification of the envelope: the key inline,
\* the key in its file, a key that is no PEM, and no key at all
CodecEnvirons ==
    {Environ("pem", "absent", "pem", "absent", "secret"),
     Environ("", "pem", "", "pem", "secret"),
     Environ("garbage", "absent", "pem", "absent", "secret"),
     Environ("", "absent", "pem", "absent", "secret")}

InitCodec == \E e \in CodecEnvirons : InitBoot(e)

\* the envelope around routes that do not depend on the guard
NextCodec ==
    \/ Settings_init
    \/ load_server_key
    \/ \E t \in ClockInstants : AdvanceClock(t)
    \/ \E req \in CodecRequests(clock_ms) : dispatch(req)
    \/ \E p \in BagToSet(pipe) : call_unguarded(p)
    \/ \E p \in BagToSet(pipe) : dispatch_return(p)

SpecCodec == InitCodec /\ [][NextCodec]_vars

\* the outcomes of endpoint_fails
OtherStatuses ==
    {HTTP_400_BAD_REQUEST, HTTP_403_FORBIDDEN, HTTP_422_UNPROCESSABLE_ENTITY,
     HTTP_500_INTERNAL_SERVER_ERROR}

\* the requests of the specification of the login route: envelopes with the
\* right password and with a wrong one, to be answered under a reply key
\* that is usable or not, an empty body, and bodies the envelope layer
\* turns away
LoginRequests(t) ==
    {HttpRequest("POST", "/auth/login", "ip1", b) :
        b \in {EmptyBody,
               Body("nocontent", "garbage", "other", FALSE, "", "notjson", None, "", "absent"),
               Body("content", "garbage", "other", FALSE, "", "notjson", None, "", "absent"),
               Envelope(Some(t - 70 * MsPerSec), "bad", "absent")}
              \cup {Envelope(Some(t), "good", "ck1"),
                    Envelope(Some(t), "bad", "ck1"),
                    Envelope(Some(t), "bad", "invalid")}}

LoginEnvirons ==
    {Environ("pem", "absent", "pem", "absent", "secret"),
     Environ("garbage", "absent", "pem", "absent", "secret")}

InitLogin == \E e \in LoginEnvirons : InitBoot(e)

\* the login route behind the envelope and the guard
NextLogin ==
    \/ Settings_init
    \/ load_server_key
    \/ \E t \in CoarseInstants : AdvanceTime(t) /\ InsideApp
    \/ \E req \in LoginRequests(clock_ms) :
          BagCardinality(pipe) < MaxLoginPipe /\ dispatch(req)
    \/ \E p \in BagToSet(pipe) : call_guarded(p)
    \/ \E r \in BagToSet(inflight) : r.cred \in Creds /\ login(r) /\ InsideApp
    \/ \E r \in BagToSet(inflight), status \in OtherStatuses :
          endpoint_fails(r, status) /\ InsideApp
    \/ \E p \in BagToSet(pipe) : return_guarded(p)
    \/ \E p \in BagToSet(pipe) : dispatch_return(p)

SpecLogin == InitLogin /\ [][NextLogin]_vars

\* every environment the process may be started in
BootEnvirons ==
    {Environ(k, f, pk, pf, j) :
        k \in KeyTexts, f \in FileStates,
        pk \in {"", "pem"}, pf \in {"absent", "pem"}, j \in {"", "secret"}}

InitStartup == \E e \in BootEnvirons : InitBoot(e)

\* the start of the process, up to the first request
NextStartup ==
    \/ Settings_init
    \/ load_server_key

SpecStartup == InitStartup /\ [][NextStartup]_vars

\* ------------------------------------------------------------------ claims

Tracked(ip) == ip \in DOMAIN BLOCKED

LockoutSet(ip) == Tracked(ip) /\ BLOCKED[ip].block_timeout # None

\* the lockout of ip is in force: set, and now < lockout_until
InForce(ip) == LockoutSet(ip) /\ now < BLOCKED[ip].block_timeout[1]

\* this step registers a failure for ip
Registers(ip) == Attempts(ip)' = Attempts(ip) + 1

C2_LockedOutRejected ==
    [][\A ip \in Ips, cred \in Creds :
        (rate_limit_gaurd(ip, cred) /\ InForce(ip))
          => /\ resp'.status = HTTP_403_FORBIDDEN
             /\ resp'.ip = ip
             /\ resp'.cred = cred
             /\ inflight' = inflight
             /\ auth_failed' = auth_failed
             /\ BLOCKED' = BLOCKED
    ]_vars

\* a request with the right password was rejected during the lockout
C2_Witness ==
    /\ resp.status = HTTP_403_FORBIDDEN
    /\ resp.cred = "good"
    /\ InForce(resp.ip)

\* the requests of ip that the endpoint answered with 401 and that the guard
\* has not yet registered
Pending401(ip) ==
    BagCardinality([r \in {q \in Of(ip) : q.pc = "handled" /\ q.status = HTTP_401_UNAUTHORIZED}
                      |-> inflight[r]])

\* C3: no lost updates: whatever the interleaving, every request of an
\* identity that ended with an authentication failure is counted exactly
\* once in attempts, and the registration that brings attempts to
\* MAX_FAILURES sets the lockout.
C3_NoLostUpdates ==
    /\ [](\A ip \in Ips : auth_failed[ip] = Attempts(ip) + Pending401(ip))
    /\ [][\A r \in BagToSet(inflight) :
            (rate_limit_gaurd_exit(r) /\ r.status = HTTP_401_UNAUTHORIZED)
              => /\ Attempts(r.ip)' = Attempts(r.ip) + 1
                 /\ (Attempts(r.ip)' = MAX_FAILURES
                       => BLOCKED'[r.ip].block_timeout = Some(now + LockTicks))
       ]_vars

\* one failure was just registered while another failed request of the same
\* identity, admitted before this one completed, still waits to be registered
C3_Witness ==
    /\ resp.status = HTTP_401_UNAUTHORIZED
    /\ Pending401(resp.ip) >= 1
    /\ Attempts(resp.ip) >= 1

\* C4: a failure registered for an identity whose lockout is in force does
\* not change lockout_until.
C4_LockoutSetOnce ==
    [][\A ip \in Ips :
        (Registers(ip) /\ InForce(ip))
          => BLOCKED'[ip].block_timeout = BLOCKED[ip].block_timeout
    ]_vars

\* the first lockout of ip has expired
FirstLockoutExpired(ip) == first_lockout[ip] # None /\ now > first_lockout[ip][1]

\* C5: before the first lockout of an identity has expired, no more than
\* MAX_FAILURES of its requests have reached the endpoint and failed there.
C5_NoExtraGuesses ==
    \A ip \in Ips : ~FirstLockoutExpired(ip) => auth_failed[ip] <= MAX_FAILURES

\* the lockout window of ip has elapsed: now is past lockout_until
Elapsed(ip) == LockoutSet(ip) /\ now > BLOCKED[ip].block_timeout[1]

\* C6: once the lockout window has elapsed the next request passes the
\* admission check; neither the passing of time nor that check resets
\* attempts, and a failure registered afterwards adds one to the cumulative
\* value (10 becomes 11).
C6_ExpiryKeepsCount ==
    [][/\ \A ip \in Ips, cred \in Creds :
            (rate_limit_gaurd(ip, cred) /\ Elapsed(ip))
              => /\ inflight' = inflight (+) SetToBag({Request("admitted", ip, cred, 0)})
                 /\ resp' = NoResponse
                 /\ Attempts(ip)' = Attempts(ip)
       /\ (now' # now => \A ip \in Ips : Attempts(ip)' = Attempts(ip))
       /\ \A r \in BagToSet(inflight) :
            (rate_limit_gaurd_exit(r) /\ r.status = HTTP_401_UNAUTHORIZED)
              => Attempts(r.ip)' = Attempts(r.ip) + 1
    ]_vars

\* a request was admitted after the first lockout expired, attempts still 10
C6_Witness ==
    \E r \in BagToSet(inflight) :
        /\ r.pc = "admitted"
        /\ InFlight(r.ip) = 1
        /\ Attempts(r.ip) = MAX_FAILURES
        /\ FirstLockoutExpired(r.ip)
        /\ BLOCKED[r.ip].block_timeout = None

\* C7: a record has lockout_until set only if its attempts >= MAX_FAILURES,
\* and the registration that raises attempts from MAX_FAILURES - 1 to
\* MAX_FAILURES always sets lockout_until.
C7_LockoutIffThreshold ==
    /\ [](\A ip \in Ips : LockoutSet(ip) => Attempts(ip) >= MAX_FAILURES)
    /\ [][\A ip \in Ips :
            (Registers(ip) /\ Attempts(ip) = MAX_FAILURES - 1) => LockoutSet(ip)'
       ]_vars

\* the tenth failure was just registered and the lockout is set
C7_Witness ==
    /\ resp.status = HTTP_401_UNAUTHORIZED
    /\ Attempts(resp.ip) = MAX_FAILURES
    /\ LockoutSet(resp.ip)

\* this step admits a request of ip
Admits(ip) ==
    \E cred \in Creds : inflight' = inflight (+) SetToBag({Request("admitted", ip, cred, 0)})

\* C8: a request checked at now < lockout_until is rejected, a request
\* checked at now = lockout_until or later is admitted.
C8_EndsAtLockoutUntil ==
    [][\A ip \in Ips, cred \in Creds :
        (rate_limit_gaurd(ip, cred) /\ LockoutSet(ip))
          => IF now < BLOCKED[ip].block_timeout[1]
             THEN resp'.status = HTTP_403_FORBIDDEN /\ ~Admits(ip)
             ELSE resp' = NoResponse /\ Admits(ip)
    ]_vars

\* C9: every LockedOut rejection reports a wait time > 0.
C9_PositiveWait ==
    resp.status = HTTP_403_FORBIDDEN => resp.wait > 0

\* the record of ip: whether it exists, and its fields
Record(ip) == IF Tracked(ip) THEN << BLOCKED[ip] >> ELSE << >>

\* C10: a check or a failure registration for an identity leaves the record
\* of every other identity as it is, and whether a request is admitted is
\* decided by the record of its own identity and the clock alone.
C10_Independence ==
    [][\A a \in Ips : \A b \in Ips \ {a} :
        /\ \A cred \in Creds : rate_limit_gaurd(a, cred) => Record(b)' = Record(b)
        /\ \A r \in BagToSet(inflight) :
              (r.ip = a /\ rate_limit_gaurd_exit(r)) => Record(b)' = Record(b)
        /\ \A cred \in Creds :
              rate_limit_gaurd(b, cred)
                => (Admits(b) <=> ~(/\ Record(b) # << >>
                                    /\ Record(b)[1].block_timeout # None
                                    /\ Record(b)[1].block_timeout[1] >= now))
    ]_vars

\* a failure of one identity was registered in its own record while the
\* other identity is locked out
C10_Witness ==
    \E a \in Ips :
        /\ resp.ip \in Ips \ {a}
        /\ resp.status = HTTP_401_UNAUTHORIZED
        /\ Attempts(resp.ip) = 1
        /\ InForce(a)
        /\ Attempts(a) = MAX_FAILURES

\* C12: a successful authentication never mutates the counters of the
\* failure store: the admission check, the endpoint and the guard's
\* resumption of a request that succeeds leave attempts of a tracked
\* identity as it is and create no record for an untracked one, so an
\* identity that never failed is never in the store.
C12_SuccessKeepsStore ==
    /\ [](\A ip \in Ips : auth_failed[ip] = 0 => ~Tracked(ip))
    /\ [][/\ \A ip \in Ips :
               rate_limit_gaurd(ip, "good")
                 => /\ Tracked(ip)' = Tracked(ip)
                    /\ Attempts(ip)' = Attempts(ip)
          /\ \A r \in BagToSet(inflight) :
               ((login(r) \/ rate_limit_gaurd_exit(r)) /\ LoginStatus(r.cred) = HTTP_200_OK)
                 => BLOCKED' = BLOCKED
       ]_vars

\* a login succeeded for an identity with failures on record, which it keeps
C12_Witness ==
    /\ resp.status = HTTP_200_OK
    /\ resp.cred = "good"
    /\ Attempts(resp.ip) \in 1..(MAX_FAILURES - 1)
    /\ auth_failed[resp.ip] = Attempts(resp.ip)

\* C13: whatever the sequence of checks, successes, failures and lockout
\* expiries, a record once created is never removed from the store and its
\* attempts never decreases.
C13_RecordsPersist ==
    [][\A ip \in Ips :
        Tracked(ip) => /\ Tracked(ip)'
                       /\ Attempts(ip)' >= Attempts(ip)
    ]_vars

\* a failure was registered after the lockout of the identity had expired
\* and had been cleared by a check: the record is there, attempts went on
C13_Witness ==
    /\ resp.status = HTTP_401_UNAUTHORIZED
    /\ FirstLockoutExpired(resp.ip)
    /\ Attempts(resp.ip) = MAX_FAILURES + 1
    /\ now > first_lockout[resp.ip][1]
    /\ BLOCKED[resp.ip].first_attempt_time = Some(0)

\* C14 as stated: the check of an identity that is not locked changes no
\* field of the failure store, the first check after an expiry included.
C14_CheckIsNoOp ==
    [][\A ip \in Ips, cred \in Creds :
        (rate_limit_gaurd(ip, cred) /\ ~InForce(ip)) => BLOCKED' = BLOCKED
    ]_vars

\* C14: the check never creates a record and never changes attempts or the
\* first and last attempt time; the one field it writes is lockout_until,
\* which the first check after the lockout expired sets back to None, and
\* every other check leaves the store as it is.
C14_CheckClearsOnlyExpiredLockout ==
    [][\A ip \in Ips, cred \in Creds :
        rate_limit_gaurd(ip, cred)
          => IF Elapsed(ip)
             THEN BLOCKED' = [BLOCKED EXCEPT ![ip].block_timeout = None]
             ELSE BLOCKED' = BLOCKED
    ]_vars

\* the first check after the expiry has admitted a request: the record has
\* lost its lockout_until and kept its count and its times
C14_Witness ==
    \E r \in BagToSet(inflight) :
        /\ r.pc = "admitted"
        /\ first_lockout[r.ip] # None
        /\ ~LockoutSet(r.ip)
        /\ Attempts(r.ip) >= MAX_FAILURES
        /\ BLOCKED[r.ip].last_attempt_time # None
        /\ BLOCKED[r.ip].first_attempt_time # None

\* the requests of ip the endpoint has ended for, with status, and the guard
\* has not yet resumed for
Ended(ip, status) ==
    {r \in Of(ip) : r.pc = "handled" /\ r.status = status}

\* C11: a failure is registered for an identity if and only if the protected
\* endpoint ran for a request of it and ended with 401: attempts changes
\* only in the step in which the guard resumes for such a request, and then
\* by one; when the endpoint ended with 400, 403, 422, 500 or a success, and
\* when the envelope layer or the lockout check turned the request away,
\* the failure store is left as it is.
C11_RegisteredIffRejected ==
    /\ [](\A ip \in Ips : auth_failed[ip] = Attempts(ip) + Pending401(ip))
    /\ [][/\ \A ip \in Ips :
               Attempts(ip)' # Attempts(ip)
                 => /\ Attempts(ip)' = Attempts(ip) + 1
                    /\ \E r \in Ended(ip, HTTP_401_UNAUTHORIZED) :
                          inflight' = inflight (-) SetToBag({r})
          /\ \A r \in BagToSet(inflight) :
               rate_limit_gaurd_exit(r)
                 => IF r.status = HTTP_401_UNAUTHORIZED
                    THEN Attempts(r.ip)' = Attempts(r.ip) + 1
                    ELSE BLOCKED' = BLOCKED
          /\ \A req \in {sent'.req} : dispatch(req) => BLOCKED' = BLOCKED
          /\ (resp'.status = HTTP_403_FORBIDDEN \/ sent'.status = HTTP_403_FORBIDDEN)
               => BLOCKED' = BLOCKED
       ]_vars

\* the endpoint raised an exception that is no HTTPException for a request
\* with a wrong password: the failures on record are those of before
C11_Witness ==
    /\ resp.status = HTTP_500_INTERNAL_SERVER_ERROR
    /\ resp.cred = "bad"
    /\ Attempts(resp.ip) >= 1
    /\ Attempts(resp.ip) = auth_failed[resp.ip]
    /\ \E p \in BagToSet(pipe) : p.pc = "returned" /\ p.status = resp.status

\* In the formulas on dispatch the request of the step is taken from sent',
\* where dispatch(req) records req: no other step sets sent.req.

\* the request is an envelope for the server's key that decrypts and parses
\* and carries a ts
Decryptable(req) ==
    /\ ~Exempt(req)
    /\ server_key = Some("srv")
    /\ req.body.wrapper = "content"
    /\ req.body.token = "jwe"
    /\ req.body.recipient = "srv"
    /\ req.body.intact
    /\ req.body.alg = "RSA-OAEP-256"
    /\ req.body.inner = "object"
    /\ req.body.ts # None

\* this step hands req to call_next with its decrypted payload
Accepts(req) ==
    /\ sent' = Sent(req, NoPipeRequest, 0, "", "none")
    /\ pipe' = pipe (+) SetToBag({
          PipeRequest("forwarded", req.method, req.path, req.ip,
                      json_dumps(req.body.payload), TRUE,
                      req.body.client_public_key, 0)})

\* this step answers req with status and detail; no handler runs for it
Refuses(req, status, detail) ==
    /\ sent' = Sent(req, NoPipeRequest, status, detail, "none")
    /\ pipe' = pipe

\* C15: an envelope that decrypts is accepted if and only if
\* -CLOCK_SKEW <= now - ts <= MAX_REQUEST_AGE, both limits included (5 s and
\* 60 s): ts = now and ts = now - 1 s are accepted, ts = now - 70 s and
\* ts = now + 10 s are answered 403 'Request expired', and no handler runs
\* for an envelope that is refused.
C15_FreshnessWindow ==
    [][\A req \in {sent'.req} :
        (dispatch(req) /\ Decryptable(req))
          => LET age_ms == clock_ms - req.body.ts[1]
             IN  /\ IF /\ -(5 * 1000) <= age_ms
                       /\ age_ms <= 60 * 1000
                    THEN Accepts(req)
                    ELSE Refuses(req, HTTP_403_FORBIDDEN, "Request expired")
                 /\ age_ms \in {0, 1000} => Accepts(req)
                 /\ age_ms \in {70 * 1000, -(10 * 1000)} => ~Accepts(req)
    ]_vars

\* an envelope exactly MAX_REQUEST_AGE old was handed to the handler
C15_Witness ==
    /\ sent.status = 0
    /\ sent.req.body.ts = Some(clock_ms - MAX_REQUEST_AGE * MsPerSec)
    /\ \E p \in BagToSet(pipe) : p.pc = "forwarded" /\ p.decrypted

\* the wrapper of req parses and has a content, and what follows fails:
\* the content is no JWE, is for another key, was altered, names an
\* algorithm the server does not accept, or its plaintext does not parse
FailsAfterWrapper(req) ==
    /\ ~Exempt(req)
    /\ req.body.wrapper = "content"
    /\ \/ server_key = None
       \/ req.body.token = "garbage"
       \/ req.body.recipient # "srv"
       \/ ~req.body.intact
       \/ req.body.alg # "RSA-OAEP-256"
       \/ req.body.inner # "object"

\* C16: every failure after the wrapper was parsed and a content found has
\* one and the same visible result, 400 'Handshake Failed', whatever its
\* cause, and the handler does not run.
C16_OneHandshakeFailure ==
    [][\A req \in {sent'.req} :
        (dispatch(req) /\ FailsAfterWrapper(req))
          => Refuses(req, HTTP_400_BAD_REQUEST, "Handshake Failed")
    ]_vars

\* an envelope encrypted to another key was answered 'Handshake Failed' by a
\* server that has its key
C16_Witness ==
    /\ sent.status = HTTP_400_BAD_REQUEST
    /\ sent.detail = "Handshake Failed"
    /\ sent.req.body.token = "jwe"
    /\ sent.req.body.recipient = "other"
    /\ server_key = Some("srv")
    /\ pipe = EmptyBag

\* C17 as stated: a body that is no JSON, or JSON without content, is
\* refused with an outcome other than that of a decryption failure.
C17_MalformedIsDistinct ==
    [][\A req \in {sent'.req} :
        (dispatch(req) /\ ~Exempt(req) /\ req.body.wrapper \in {"notjson", "nocontent"})
          => /\ sent'.status = HTTP_400_BAD_REQUEST
             /\ sent'.detail # "Handshake Failed"
             /\ pipe' = pipe
    ]_vars

\* C17: a non-empty body that is a JSON object without content is refused
\* with 400 'Content is missing', and one that is no JSON, or no JSON
\* object, with 400 'Handshake Failed', the answer of a decryption failure;
\* both whatever the server key is, and without the handler running.
C17_MalformedRefused ==
    [][\A req \in {sent'.req} :
        (dispatch(req) /\ ~Exempt(req))
          => /\ req.body.wrapper = "nocontent"
                  => Refuses(req, HTTP_400_BAD_REQUEST, "Content is missing")
             /\ req.body.wrapper \in {"notjson", "nonobject"}
                  => Refuses(req, HTTP_400_BAD_REQUEST, "Handshake Failed")
    ]_vars

\* a body without content was answered 'Content is missing' by a server
\* that has no key
C17_Witness ==
    /\ sent.status = HTTP_400_BAD_REQUEST
    /\ sent.detail = "Content is missing"
    /\ sent.req.body.wrapper = "nocontent"
    /\ server_key = None
    /\ pipe = EmptyBag

\* C18: the wrapper is parsed first, then the content decrypted, then the
\* plaintext parsed, then the freshness looked at: 'Request expired' is only
\* ever the answer to an envelope that decrypted and parsed, and an envelope
\* that fails after its wrapper is answered 'Handshake Failed' however old
\* its ts is.
C18_CheckOrder ==
    [][\A req \in {sent'.req} :
        dispatch(req)
          => /\ sent'.detail = "Request expired"
                  => /\ req.body.wrapper = "content"
                     /\ req.body.token = "jwe"
                     /\ req.body.recipient = "srv"
                     /\ req.body.intact
                     /\ req.body.alg = "RSA-OAEP-256"
                     /\ req.body.inner = "object"
                     /\ server_key = Some("srv")
             /\ (FailsAfterWrapper(req) /\ req.body.ts = Some(clock_ms - 70 * MsPerSec))
                  => sent'.detail = "Handshake Failed"
             /\ req.body.wrapper = "nocontent" => sent'.detail = "Content is missing"
    ]_vars

\* an envelope that was altered and is 70 s old was answered 'Handshake
\* Failed' by a server that has its key
C18_Witness ==
    /\ sent.detail = "Handshake Failed"
    /\ ~sent.req.body.intact
    /\ sent.req.body.token = "jwe"
    /\ sent.req.body.ts = Some(clock_ms - 70 * MsPerSec)
    /\ server_key = Some("srv")

NoKeyResolvable ==
    /\ environ.PRIVATE_KEY = ""
    /\ environ.private_pem \in {"", "absent", "unreadable"}

\* the private key that is resolved is no PEM
KeyUnparsable ==
    \/ environ.PRIVATE_KEY = "garbage"
    \/ environ.PRIVATE_KEY = "" /\ environ.private_pem = "garbage"

\* the other required settings are there
OthersConfigured ==
    /\ environ.PUBLIC_KEY # "" \/ environ.public_pem = "pem"
    /\ environ.JWT_SECRET_KEY # ""

\* C20: a failure to load the private key at start-up, be it that no key
\* can be resolved or that the key does not parse, does not abort the
\* start of the process.
C20_KeyFailureDoesNotAbort ==
    ((NoKeyResolvable \/ KeyUnparsable) /\ OthersConfigured) => phase # "aborted"

\* this step is the outbound half of dispatch for the request p
Returns(p) == p.pc = "returned" /\ pipe' = pipe (-) SetToBag({p})

\* the handler of p answered: call_next returned a response and did not raise
Answered(p) == p.status # HTTP_500_INTERNAL_SERVER_ERROR

\* C21: the response to a request whose envelope carried a usable client
\* key is the handler's response encrypted to exactly that key, which is the
\* key of the request's own envelope, whatever other requests are inside the
\* middleware with other keys; the response to a request without a client
\* key is the handler's response, in the clear, with its status.
C21_ResponseKeyBinding ==
    [][/\ \A req \in {sent'.req} :
            (dispatch(req) /\ Decryptable(req) /\ sent'.status = 0)
               => \E p \in BagToSet(pipe') :
                     /\ pipe' = pipe (+) SetToBag({p})
                     /\ p.client_pub_key_json = req.body.client_public_key
       /\ \A p \in BagToSet(pipe) :
            (Returns(p) /\ Answered(p))
               => /\ p.client_pub_key_json \in ClientKeys
                       => /\ sent'.body.encrypted
                          /\ sent'.body.recipient = p.client_pub_key_json
                          /\ sent'.body.text = ResponseText(p)
                          /\ sent'.rec = p
                          /\ \A k \in ClientKeys \ {p.client_pub_key_json} :
                                decrypt_response(sent'.body, k) = None
                  /\ p.client_pub_key_json = "absent"
                       => /\ sent'.body = PlainBody(ResponseText(p))
                          /\ sent'.status = p.status
                          /\ sent'.rec = p
    ]_vars

\* a response went out encrypted to the key of its request while a request
\* with another client key was inside the middleware
C21_Witness ==
    /\ sent.body.encrypted
    /\ sent.rec.client_pub_key_json = "ck1"
    /\ sent.body.recipient = "ck1"
    /\ \E q \in BagToSet(pipe) : q.client_pub_key_json = "ck2"

C23_StatusPreserved ==
    [][\A p \in BagToSet(pipe) :
        (Returns(p) /\ sent'.body.encrypted)
          => /\ sent'.status = p.status
             /\ sent'.rec = p
             /\ p.status = HTTP_401_UNAUTHORIZED
                  => sent'.body.text = << "detail", "Invalid credentials" >>
    ]_vars

\* the 401 of a login with a wrong password went out as a 401 with an
\* encrypted body, and the failure was registered
C23_Witness ==
    /\ sent.status = HTTP_401_UNAUTHORIZED
    /\ sent.body.encrypted
    /\ sent.rec.path = "/auth/login"
    /\ sent.rec.body = "bad"
    /\ Attempts(sent.rec.ip) >= 1

\* the words of a text
Words(text) == {text[i] : i \in DOMAIN text}

\* C24: when the accepted envelope carried a client key that is no usable
\* key, be it an empty value or any other value that is no key, the request
\* ends with a 500 whose body is in the clear and holds no word of the
\* handler's response: the handler's plaintext is never what is sent.
C24_InvalidKeyFailsClosed ==
    [][\A p \in BagToSet(pipe) :
        (Returns(p) /\ Answered(p) /\ p.decrypted
            /\ p.client_pub_key_json \in {"empty", "invalid"})
          => /\ sent'.status = HTTP_500_INTERNAL_SERVER_ERROR
             /\ Words(sent'.body.text) \cap Words(ResponseText(p)) = {}
    ]_vars

\* the requests the envelope layer is to let through unread: preflights,
\* the docs, the health check and the public key
ExemptByPath(req) ==
    \/ req.method = "OPTIONS"
    \/ req.path \in {"/docs", "/openapi.json", "/health", "/crypto/public-key"}

\* C25: a request to the health check, the docs, the public-key endpoint or
\* a preflight is never answered by the envelope layer, whatever its body:
\* it is handed to call_next undecrypted, with no reply key.
C25_ExemptPathsBypass ==
    [][\A req \in {sent'.req} :
        (dispatch(req) /\ ExemptByPath(req))
          => /\ sent'.status = 0
             /\ \E p \in BagToSet(pipe') :
                   /\ pipe' = pipe (+) SetToBag({p})
                   /\ p.path = req.path
                   /\ ~p.decrypted
                   /\ p.client_pub_key_json = "absent"
    ]_vars

\* C26: a GET of the public-key endpoint is answered, without credentials,
\* 200 with the configured public key as it is, in the clear, or 500 when no
\* public key is configured; the step changes neither the keys nor the
\* failure store.
C26_PublicKeyServed ==
    [][\A p \in BagToSet(pipe) :
        (Returns(p) /\ p.method = "GET" /\ p.path = "/crypto/public-key")
          => /\ IF settings.PUBLIC_KEY # ""
                THEN /\ sent'.status = HTTP_200_OK
                     /\ sent'.body = PlainBody(<< settings.PUBLIC_KEY >>)
                ELSE sent'.status = HTTP_500_INTERNAL_SERVER_ERROR
             /\ UNCHANGED << settings, server_key, BLOCKED >>
    ]_vars

\* the key file of a setting
KeyFile(k) == IF k = "PRIVATE_KEY" THEN "private_pem" ELSE "public_pem"

\* C27: for the private and for the public key alike, an inline value is
\* the key that is used and its file is not opened; the file is opened
\* exactly when the inline value is empty and the file exists, and what was
\* read from it is then the key.
C27_InlinePreferred ==
    [][(phase = "boot" /\ phase' # "boot")
        => \A k \in {"PRIVATE_KEY", "PUBLIC_KEY"} :
             /\ environ[k] # ""
                  => /\ KeyFile(k) \notin opened'
                     /\ phase' = "configured" => settings'[k] = environ[k]
                     /\ environ'[k] = environ[k]
             /\ KeyFile(k) \in opened'
                  <=> (environ[k] = "" /\ environ[KeyFile(k)] # "absent")
             /\ (environ[k] = "" /\ environ[KeyFile(k)] \in KeyTexts
                    /\ phase' = "configured")
                  => settings'[k] = environ[KeyFile(k)]
    ]_vars

\* the private key was given inline next to a key file with other content,
\* which was left unopened, while the public key was read from its file
C27_Witness ==
    /\ phase = "configured"
    /\ environ.private_pem = "garbage"
    /\ settings.PRIVATE_KEY = "pem"
    /\ settings.PUBLIC_KEY = "pem"
    /\ opened = {"public_pem"}

\* C28: server_key is assigned at most once, by the step that ends the
\* start-up; once the process serves, no step changes it, nor whether there
\* is one, nor the settings it was read from, whatever happens to the
\* requests.
C28_ServerKeyImmutable ==
    [][/\ server_key' # server_key => (phase = "configured" /\ phase' = "serving")
       /\ phase = "serving"
            => /\ server_key' = server_key
               /\ settings' = settings
               /\ phase' = "serving"
    ]_vars

\* a request was answered 403 by the lockout, after envelopes were accepted
\* and failures registered, and the key is the one loaded at start-up
C28_Witness ==
    /\ sent.status = HTTP_403_FORBIDDEN
    /\ sent.rec.path = "/auth/login"
    /\ sent.rec.decrypted
    /\ LockoutSet(sent.rec.ip)
    /\ server_key = from_pem(settings.PRIVATE_KEY)
    /\ server_key = Some("srv")

\* the ts of the envelope is inside the freshness window at the current time
Fresh(req) ==
    /\ req.body.ts # None
    /\ clock_ms - req.body.ts[1] <= MAX_REQUEST_AGE * MsPerSec
    /\ clock_ms - req.body.ts[1] >= -(CLOCK_SKEW * MsPerSec)

\* C29: what the inbound half does with a body that is not empty, on a
\* path that is not exempt, is decided by the body, the server key and the
\* current time alone, whatever requests are inside the middleware and
\* whatever was answered before: an envelope that decrypts and is fresh is
\* accepted, every other body is refused; an envelope that was accepted is
\* accepted again while its ts is still fresh, also while the first copy is
\* still being served.
C29_CodecStateless ==
    [][\A req \in {sent'.req} :
        (dispatch(req) /\ ~Exempt(req) /\ req.body.wrapper # "empty")
          => /\ (Decryptable(req) /\ Fresh(req)) => Accepts(req)
             /\ ~(Decryptable(req) /\ Fresh(req))
                  => /\ pipe' = pipe
                     /\ sent'.status \in {HTTP_400_BAD_REQUEST, HTTP_403_FORBIDDEN}
             /\ (sent = Sent(req, NoPipeRequest, 0, "", "none") /\ Fresh(req))
                  => Accepts(req)
    ]_vars

\* an envelope whose ts is one second old was accepted while a request with
\* the same payload and the same reply key, accepted before it, was still
\* inside the middleware
C29_Witness ==
    /\ sent.status = 0
    /\ sent.req.body = Envelope(Some(StartMs), "ping", "absent")
    /\ clock_ms = StartMs + MsPerSec
    /\ \E p \in BagToSet(pipe) :
          /\ CopiesIn(p, pipe) = 2
          /\ p.decrypted
          /\ p.path = sent.req.path
          /\ p.body = sent.req.body.payload
          /\ p.client_pub_key_json = sent.req.body.client_public_key

\* C30: every request inside the application on a path that is not exempt
\* got there with a body that was decrypted under the server key and passed
\* the freshness check, a request with an empty body included.
C30_HandlerOnlyAfterEnvelope ==
    \A p \in BagToSet(pipe) : ~Exempt(p) => p.decrypted

\* this step answers a request of ip with the 401 of the endpoint, after the
\* guard has registered the failure
Answers401(ip) == resp'.status = HTTP_401_UNAUTHORIZED /\ resp'.ip = ip

\* C31: once the attempts of an identity have reached MAX_FAILURES and its
\* lockout is over, one more failure sets a lockout of the full
\* BLOCK_LOCKOUT_TIME from that failure on: the count goes on from where it
\* was, and the next request is rejected.
C31_NoFreshAllowance ==
    [][\A ip \in Ips :
        (Answers401(ip) /\ first_lockout[ip] # None
            /\ Attempts(ip) >= MAX_FAILURES /\ ~InForce(ip))
          => /\ Attempts(ip)' = Attempts(ip) + 1
             /\ BLOCKED'[ip].block_timeout = Some(now + LockTicks)
             /\ Rejects(BLOCKED', ip, now')
    ]_vars

\* the first lockout is over, and the eleventh failure has set a lockout of
\* the full length
C31_Witness ==
    /\ resp.status = HTTP_401_UNAUTHORIZED
    /\ Attempts(resp.ip) = MAX_FAILURES + 1
    /\ first_lockout[resp.ip] # None
    /\ now > first_lockout[resp.ip][1]
    /\ BLOCKED[resp.ip].block_timeout = Some(now + LockTicks)

\* C32: a registration that sets the lockout sets block_timeout to its own
\* time plus BLOCK_LOCKOUT_TIME, which is 900 s, and last_attempt_time to
\* its own time; in every state with a lockout set,
\* block_timeout = last_attempt_time + BLOCK_LOCKOUT_TIME.
C32_LockoutFromLastAttempt ==
    /\ [](/\ BLOCK_LOCKOUT_TIME = 900
          /\ \A ip \in Ips :
                LockoutSet(ip)
                  => /\ BLOCKED[ip].last_attempt_time # None
                     /\ BLOCKED[ip].block_timeout[1]
                          = BLOCKED[ip].last_attempt_time[1] + LockTicks)
    /\ [][\A ip \in Ips :
            (Answers401(ip) /\ Attempts(ip)' >= MAX_FAILURES)
              => /\ BLOCKED'[ip].block_timeout = Some(now + LockTicks)
                 /\ BLOCKED'[ip].last_attempt_time = Some(now)
       ]_vars

\* a lockout set by a failure registered after time 0
C32_Witness ==
    /\ LockoutSet("ip1")
    /\ BLOCKED["ip1"].last_attempt_time # None
    /\ BLOCKED["ip1"].last_attempt_time[1] > BLOCKED["ip1"].first_attempt_time[1]
    /\ BLOCKED["ip1"].block_timeout[1] = now + LockTicks
    /\ resp.status = HTTP_401_UNAUTHORIZED

\* the last instant of the clock
Horizon == LockTicks + Window + 1

\* C33: a lockout ends: while the clock advances and requests of the
\* identity keep coming, a lockout in force that ends before the last
\* instant of the clock is followed by the admission of a request, at which
\* the guard removes the block, unless a further failure is registered that
\* moves the end of the lockout to the last instant or beyond; and a request
\* checked once now has passed block_timeout is admitted.
C33_LockoutEnds ==
    /\ (InForce("ip1") /\ BLOCKED["ip1"].block_timeout[1] < Horizon)
          ~> (\/ ~LockoutSet("ip1")
              \/ BLOCKED["ip1"].block_timeout[1] >= Horizon)
    /\ [][\A cred \in Creds :
            (rate_limit_gaurd("ip1", cred) /\ Elapsed("ip1"))
              => /\ resp' = NoResponse
                 /\ inflight' = inflight (+) SetToBag({Request("admitted", "ip1", cred, 0)})
                 /\ ~LockoutSet("ip1")'
       ]_vars

\* the lockout is over and a request of the identity was admitted: it is in
\* flight, the block is removed and the count is where it was
C33_Witness ==
    /\ first_lockout["ip1"] # None
    /\ now > first_lockout["ip1"][1]
    /\ ~LockoutSet("ip1")
    /\ Attempts("ip1") = MAX_FAILURES
    /\ \E r \in BagToSet(inflight) : r.ip = "ip1" /\ r.pc = "admitted"

\* the requests inside the middleware at the position pc
Count(bag, pc) ==
    BagCardinality([p \in {q \in BagToSet(bag) : q.pc = pc} |-> bag[p]])

\* the responses of the inbound half
InboundOutcomes ==
    {<< HTTP_400_BAD_REQUEST, "Content is missing" >>,
     << HTTP_400_BAD_REQUEST, "Handshake Failed" >>,
     << HTTP_403_FORBIDDEN, "Request expired" >>}

\* C34: a request is answered once: the inbound half either answers it
\* with one of its three refusals, and then nothing of it enters the
\* application, or hands it to call_next once; the handler takes a request
\* handed over from forwarded to returned once; the outbound half answers a
\* returned request once, with the handler's response in the clear or
\* encrypted or with 500 'Secure Channel Error', and the request is gone.
C34_OneOutcome ==
    [][/\ Count(pipe', "forwarded") <= Count(pipe, "forwarded") + 1
       /\ Count(pipe', "forwarded") = Count(pipe, "forwarded") + 1
            => /\ sent'.req # NoRequest
               /\ sent'.status = 0
               /\ Count(pipe', "returned") = Count(pipe, "returned")
       /\ Count(pipe', "forwarded") < Count(pipe, "forwarded")
            => /\ Count(pipe', "forwarded") = Count(pipe, "forwarded") - 1
               /\ Count(pipe', "returned") = Count(pipe, "returned") + 1
               /\ sent' = NoSent
       /\ (sent'.status # 0 /\ sent'.rec = NoPipeRequest)
            => /\ << sent'.status, sent'.detail >> \in InboundOutcomes
               /\ sent'.req # NoRequest
               /\ pipe' = pipe
       /\ sent'.rec # NoPipeRequest
            => /\ sent'.rec.pc = "returned"
               /\ pipe' = pipe (-) SetToBag({sent'.rec})
               /\ BagCardinality(pipe') = BagCardinality(pipe) - 1
               /\ \/ sent'.body = PlainBody(ResponseText(sent'.rec))
                  \/ sent'.body = jwe_encrypt(ResponseText(sent'.rec),
                                              sent'.rec.client_pub_key_json)
                  \/ /\ sent'.status = HTTP_500_INTERNAL_SERVER_ERROR
                     /\ sent'.detail = "Secure Channel Error"
       /\ Count(pipe', "returned") < Count(pipe, "returned")
            => sent'.rec # NoPipeRequest
    ]_vars

\* the handler had run for a request whose response could not be
\* encrypted; the request was answered 500 and nothing of it is left
C34_Witness ==
    /\ sent.status = HTTP_500_INTERNAL_SERVER_ERROR
    /\ sent.detail = "Secure Channel Error"
    /\ sent.rec.pc = "returned"
    /\ sent.rec.status = HTTP_200_OK
    /\ pipe = EmptyBag

\* C35: a response that goes out encrypted carries the Set-Cookie headers
\* of the handler's response, those of a successful login among them.
C35_HeadersCarriedOver ==
    [][\A p \in BagToSet(pipe) :
        (Returns(p) /\ sent'.body.encrypted)
          => sent'.headers = ResponseHeaders(p)
    ]_vars

\* C36: an envelope whose client key is no key is accepted by the inbound
\* half like any other; the handler runs, and when it answers 401 the guard
\* registers the failure; only then is the request answered 500 'Secure
\* Channel Error', and the registration stays.
C36_InvalidKeyFoundLate ==
    [][/\ \A req \in {sent'.req} :
            (dispatch(req) /\ Decryptable(req) /\ Fresh(req)
                /\ req.body.client_public_key = "invalid")
              => Accepts(req)
       /\ \A p \in BagToSet(pipe) :
            /\ (p.pc = "in_app" /\ p.client_pub_key_json = "invalid"
                  /\ pipe' = PipeReplace(p, [p EXCEPT !.pc = "returned",
                                                      !.status = HTTP_401_UNAUTHORIZED]))
                 => /\ Attempts(p.ip)' = Attempts(p.ip) + 1
                    /\ BLOCKED'[p.ip].last_attempt_time = Some(now)
            /\ (Returns(p) /\ Answered(p) /\ p.client_pub_key_json = "invalid")
                 => /\ p.status # 0
                    /\ sent'.status = HTTP_500_INTERNAL_SERVER_ERROR
                    /\ sent'.detail = "Secure Channel Error"
                    /\ BLOCKED' = BLOCKED
    ]_vars

\* a login with a wrong password and a client key that is no key was
\* answered 500 'Secure Channel Error', and its failure is in the store
C36_Witness ==
    /\ sent.status = HTTP_500_INTERNAL_SERVER_ERROR
    /\ sent.detail = "Secure Channel Error"
    /\ sent.rec.path = "/auth/login"
    /\ sent.rec.status = HTTP_401_UNAUTHORIZED
    /\ sent.rec.client_pub_key_json = "invalid"
    /\ Attempts(sent.rec.ip) = 1
    /\ auth_failed[sent.rec.ip] = 1

\* C37: an envelope that decrypts and parses but has no ts is taken to have
\* ts 0 and is answered 403 'Request expired' whenever it comes: it is
\* never accepted and never answered as a failed handshake.
C37_MissingTsExpired ==
    [][\A req \in {sent'.req} :
        (dispatch(req) /\ ~Exempt(req) /\ server_key = Some("srv")
            /\ req.body.wrapper = "content" /\ req.body.token = "jwe"
            /\ req.body.recipient = "srv" /\ req.body.intact
            /\ req.body.alg = "RSA-OAEP-256" /\ req.body.inner = "object"
            /\ req.body.ts = None)
          => /\ request_ts(req.body) = 0
             /\ Refuses(req, HTTP_403_FORBIDDEN, "Request expired")
    ]_vars

\* an envelope without ts was answered 403 'Request expired', one second
\* after the first reading of the clock
C37_Witness ==
    /\ sent.status = HTTP_403_FORBIDDEN
    /\ sent.detail = "Request expired"
    /\ sent.req.body = Envelope(None, "ping", "absent")
    /\ server_key = Some("srv")
    /\ clock_ms = StartMs + MsPerSec

\* C38: what the handler receives of an accepted envelope is the JSON text
\* of the payload of the decrypted wrapper, null when it has none, in place
\* of the body that came: neither the ts nor the client key nor the
\* ciphertext is part of it.
C38_HandlerSeesPayload ==
    [][\A req \in {sent'.req} :
        (dispatch(req) /\ Decryptable(req) /\ Fresh(req))
          => \E p \in BagToSet(pipe') :
                /\ pipe' = pipe (+) SetToBag({p})
                /\ p.pc = "forwarded"
                /\ p.decrypted
                /\ p.body = IF req.body.payload = "absent" THEN "null"
                            ELSE req.body.payload
                /\ p.body \notin {"wire", ""}
                /\ DOMAIN p = {"pc", "method", "path", "ip", "body", "decrypted",
                               "client_pub_key_json", "status"}
    ]_vars

\* an envelope without payload was accepted, and null is what is on its
\* way to the handler
C38_Witness ==
    /\ sent.status = 0
    /\ sent.req.body = Envelope(Some(clock_ms), "absent", "ck1")
    /\ \E p \in BagToSet(pipe) :
          p.pc = "forwarded" /\ p.decrypted /\ p.body = "null"

\* C39: every record of the store has attempts >= 1, a first_attempt_time
\* and a last_attempt_time with first_attempt_time <= last_attempt_time; the
\* registration that creates the record sets first_attempt_time to its own
\* time, no later step changes it, and every registration sets
\* last_attempt_time to its own time.
C39_RecordTimes ==
    /\ [](\A ip \in DOMAIN BLOCKED :
            /\ BLOCKED[ip].attempts >= 1
            /\ BLOCKED[ip].first_attempt_time # None
            /\ BLOCKED[ip].last_attempt_time # None
            /\ BLOCKED[ip].first_attempt_time[1] <= BLOCKED[ip].last_attempt_time[1]
            /\ BLOCKED[ip].last_attempt_time[1] <= now)
    /\ [][\A ip \in Ips :
            /\ Tracked(ip)
                 => /\ Tracked(ip)'
                    /\ BLOCKED'[ip].first_attempt_time = BLOCKED[ip].first_attempt_time
            /\ (Answers401(ip) /\ ~Tracked(ip))
                 => /\ Tracked(ip)'
                    /\ BLOCKED'[ip].first_attempt_time = Some(now)
                    /\ BLOCKED'[ip].attempts = 1
            /\ Answers401(ip) => BLOCKED'[ip].last_attempt_time = Some(now)
            /\ (Tracked(ip) /\ ~Answers401(ip))
                 => BLOCKED'[ip].last_attempt_time = BLOCKED[ip].last_attempt_time
       ]_vars

\* a record with two failures, the second registered later than the first
C39_Witness ==
    /\ Tracked("ip1")
    /\ BLOCKED["ip1"].attempts = 2
    /\ BLOCKED["ip1"].first_attempt_time = Some(0)
    /\ BLOCKED["ip1"].last_attempt_time = Some(now)
    /\ now > 0
    /\ resp.status = HTTP_401_UNAUTHORIZED

====
